---- MODULE Spec2Model ----
(***************************************************************************)
(* Model of the scan-dispatch pipeline of dionysos (src/src/dionysos.rs):  *)
(* Dionysos::parse_options and Dionysos::run on the main thread, the       *)
(* worker threads, the writer thread, the work queue (spmc channel) and    *)
(* the result queue (mpsc channel).                                        *)
(***************************************************************************)
EXTENDS Integers, Sequences, FiniteSets, TLC

\* ------------------------------------------------------------------ bounds
MaxWorkers == 2     \* largest value of --threads explored
MaxWalk == 2        \* longest directory walk explored
MaxItems == 2       \* longest result sequence of one scan_file call
MaxConsumers == 2   \* largest number of consumers registered with a FileEnumerator

\* --------------------------------------------------------------- data model
\* OutputFormat (the three variants of the enum)
OutputFormat == {"Csv", "Txt", "Json"}

\* the scanners in the order in which init_scanners pushes them
ScannerNames == <<"yara", "filename", "levenshtein", "hash">>

ScannerSet == {ScannerNames[i] : i \in 1..Len(ScannerNames)}

\* one item of the sequence scan_file returns: Ok(finding) or Err(why)
ScanItem == {"Ok", "Err"}

\* all sequences over S of length at most n
RECURSIVE SeqsUpTo(_, _)
SeqsUpTo(S, n) ==
    IF n = 0 THEN {<<>>}
    ELSE LET shorter == SeqsUpTo(S, n - 1)
         IN  shorter \cup {Append(s, x) : s \in {t \in shorter : Len(t) = n - 1}, x \in S}

\* a file that no scanner matches
Clean == [s \in ScannerSet |-> <<>>]

\* an entry of the walk yielded by WalkDir: its kind, and (for what the
\* scanners compute from the file) the result sequence of every scanner
DirEntry(kind, content) == [kind |-> kind, content |-> content]

VARIABLES
    cli,              \* Cli: the parsed command line
    tree,             \* the items WalkDir yields for self.path, in walk order
    DISPLAY_STRINGS,  \* static mut DISPLAY_STRINGS
    main_pc,          \* position of the main thread
    scanners,         \* the scanner list built by init_scanners
    spawned,          \* number of worker threads spawned so far (_id)
    pos,              \* index of the next walk item of the producer loop
    rx_in,            \* contents of the work queue (spmc channel)
    rx_in_live,       \* number of live receivers of the work queue (rx_in and its clones)
    tx_in_alive,      \* the producer's sender tx_in has not been dropped
    tx_out,           \* number of live senders of the result queue
    rx_out_alive,     \* the writer's receiver rx_out has not been dropped
    results,          \* contents of the result queue (mpsc channel)
    w_pc,             \* position of each worker thread
    w_entry,          \* the entry a worker holds (0: none)
    w_result,         \* the ScannerResult a worker holds
    writer_pc,        \* position of the writer thread
    output_options,   \* the writer's OutputMethods
    stdout,           \* records written to the output
    errlog,           \* ScannerErrors passed to log::error!
    enqueued,         \* history: walk indexes sent to the work queue, in order
    handled,          \* history: number of handle_file calls per walk index
    sent,             \* history: ScannerResults pushed to the result queue, in order
    received,         \* history: ScannerResults the writer received, in order
    printed,          \* history: ScannerResults print_result was called on, in order
    progress,         \* the global progress bar: whether it exists, its length and position
    mystatus,         \* the status spinner of each worker
    fe_pc,            \* FileEnumerator::run: its position
    fe_pos,           \* FileEnumerator::run: index of the next walk item
    fe_next,          \* FileEnumerator::run: index of the next sender, or of the next consumer to join
    fe_consumers,     \* FileEnumerator: length of self.consumers
    fe_senders,       \* FileEnumerator::run: length of senders
    fe_alive,         \* whether each consumer's receiver is alive
    fe_delivered,     \* history: the walk indexes sent to each consumer, in order
    fe_joined,        \* history: the consumers joined, in order
    fe_registered     \* history: the number of consumers registered before run

vars == <<cli, tree, DISPLAY_STRINGS, main_pc, scanners, spawned, pos, rx_in,
          rx_in_live, tx_in_alive, tx_out, rx_out_alive, results, w_pc, w_entry, w_result,
          writer_pc, output_options, stdout, errlog, enqueued, handled, sent,
          received, printed, progress, mystatus, fe_pc, fe_pos, fe_next,
          fe_consumers, fe_senders, fe_alive, fe_delivered, fe_joined, fe_registered>>

Workers == 1..MaxWorkers

Consumers == 1..MaxConsumers

NoResult == [file |-> 0, findings |-> <<>>]

NoOptions == [destination |-> "None", print_strings |-> FALSE]

\* progress: None
NoProgress == [shown |-> FALSE, len |-> 0, pos |-> 0]

\* ------------------------------------------------------------ pure functions
display_strings == DISPLAY_STRINGS

skip_display_strings == ~display_strings

into_options(format) == [destination |-> format, print_strings |-> FALSE]

\* ScannerResult::from(entry.path())
ScannerResultFrom(file) == [file |-> file, findings |-> <<>>]

add_finding(result, finding) ==
    [result EXCEPT !.findings = Append(@, finding)]

has_findings(result) == Len(result.findings) > 0

\* the finding that item j of scanner's result sequence for file carries
ScannerFinding(scanner, file, j) == [scanner |-> scanner, file |-> file, id |-> j]

\* scanner.scan_file(entry): a pure function of the file
scan_file(scanner, entry) == entry.content[scanner]

\* the match on res with an Err arm that also adds a finding to the result
handle_res_err_added(st, scanner, file, j, res) ==
    IF res = "Err"
    THEN [st EXCEPT !.log = @ \cup {ScannerFinding(scanner, file, j)},
                    !.result = add_finding(@, ScannerFinding(scanner, file, j))]
    ELSE [st EXCEPT !.result = add_finding(@, ScannerFinding(scanner, file, j))]

\* one item of the loop body of handle_file (the match on res): an Err is
\* logged, an Ok is added to the result
handle_res(st, scanner, file, j, res) ==
    IF res = "Err"
    THEN [st EXCEPT !.log = @ \cup {ScannerFinding(scanner, file, j)}]
    ELSE [st EXCEPT !.result = add_finding(@, ScannerFinding(scanner, file, j))]

\* the inner loop of handle_file: for res in scanner.scan_file(entry)
RECURSIVE scan_loop(_, _, _, _, _)
scan_loop(st, scanner, file, items, j) ==
    IF j > Len(items) THEN st
    ELSE scan_loop(handle_res(st, scanner, file, j, items[j]), scanner, file, items, j + 1)

\* the outer loop of handle_file: for scanner in scanners.iter()
RECURSIVE scanner_loop(_, _, _, _, _)
scanner_loop(st, scs, i, file, entry) ==
    IF i > Len(scs) THEN st
    ELSE scanner_loop(scan_loop(st, scs[i], file, scan_file(scs[i], entry), 1),
                      scs, i + 1, file, entry)

\* handle_file running the scanners of the list from the last to the first
handle_file_reversed(scs, file, entry) ==
    scanner_loop([result |-> ScannerResultFrom(file), log |-> {}],
                 [i \in 1..Len(scs) |-> scs[Len(scs) + 1 - i]], 1, file, entry)

\* handle_file: the ScannerResult it returns and the errors it logs
handle_file(scs, file, entry) ==
    scanner_loop([result |-> ScannerResultFrom(file), log |-> {}], scs, 1, file, entry)

\* what write!(wtr, "{}", finding) puts on the output
format_txt(finding) ==
    [format |-> "Txt", scanner |-> finding.scanner, file |-> finding.file,
     id |-> finding.id, strings |-> display_strings]

\* what serde_json::to_writer(wtr, &finding.to_json()) puts on the output
to_json(finding) ==
    [format |-> "Json", scanner |-> finding.scanner, file |-> finding.file,
     id |-> finding.id, strings |-> display_strings]

\* one iteration of the loop of print_result: the records it writes.  The Csv
\* arm builds an iterator adaptor (map) and drops it unconsumed, so
\* wtr.serialize is never called.
print_finding(destination, finding) ==
    CASE destination = "Csv" -> <<>>
      [] destination = "Txt" -> <<format_txt(finding)>>
      [] destination = "Json" -> <<to_json(finding)>>

RECURSIVE print_loop(_, _, _, _)
print_loop(out, destination, findings, k) ==
    IF k > Len(findings) THEN out
    ELSE print_loop(out \o print_finding(destination, findings[k]),
                    destination, findings, k + 1)

\* print_result putting the records of the result in front of the output
print_result_front(out, options, result) ==
    print_loop(<<>>, options.destination, result.findings, 1) \o out

\* OutputMethods::print_result: the output after printing result
print_result(out, options, result) ==
    print_loop(out, options.destination, result.findings, 1)

\* Dionysos::parse_options: returns Err for a missing rule corpus, panics
\* (unwrap) on a regex that does not compile, returns Ok(Self) otherwise
parse_options(c) ==
    IF c.yara = "missing" THEN "Err"
    ELSE IF c.filenames = "invalid" THEN "Panic"
    ELSE "Ok"

\* Dionysos::init_logging
init_logging(c) == IF c.logger_ok THEN "Ok" ELSE "Err"

\* Dionysos::init_scanners: the list it builds (pushes in this order)
scanner_list(c) ==
    (IF c.yara # "none" THEN <<"yara">> ELSE <<>>)
    \o (IF c.filenames # "none" THEN <<"filename">> ELSE <<>>)
    \o (IF c.levenshtein THEN <<"levenshtein">> ELSE <<>>)
    \o (IF c.file_hash # "none" THEN <<"hash">> ELSE <<>>)

\* Dionysos::init_scanners: Err when YaraScanner::new or with_hashes fails
init_scanners(c) ==
    IF c.yara = "invalid" \/ c.file_hash = "invalid" THEN "Err" ELSE "Ok"

\* try_recv of a work queue that never reports the sender gone
try_recv_never_disconnected(queue, sender_alive) ==
    IF queue # <<>> THEN "Ok" ELSE "Empty"

\* try_recv reporting the sender gone whenever the work queue is empty
try_recv_empty_is_disconnected(queue, sender_alive) ==
    IF queue # <<>> THEN "Ok" ELSE "Disconnected"

\* spmc Receiver::try_recv on the work queue
try_recv(queue, sender_alive) ==
    IF queue # <<>> THEN "Ok"
    ELSE IF sender_alive THEN "Empty"
    ELSE "Disconnected"

\* Dionysos::create_progress: with --progress a bar whose length is the
\* number of items of a walk of the tree (WalkDir::new(..).into_iter().count())
create_progress(c, walk) ==
    IF c.display_progress THEN [shown |-> TRUE, len |-> Len(walk), pos |-> 0]
    ELSE NoProgress

\* p.inc(1) on the global progress bar, if there is one
inc(p) == IF p.shown THEN [p EXCEPT !.pos = @ + 1] ELSE p

\* s.finish_and_clear() on a worker's spinner, if there is one
finish_and_clear(s) == IF s = "None" THEN s ELSE "cleared"

\* spmc Sender::send on the work queue: an error once every receiver is gone
send_in(receivers) == IF receivers = 0 THEN "Err" ELSE "Ok"

\* mpsc Sender::send on the result queue: an error once the receiver is gone
send_out(receiver_alive) == IF receiver_alive THEN "Ok" ELSE "Err"

\* recv reporting an error whenever the result queue is empty
recv_empty_is_error(queue, senders) ==
    IF queue # <<>> THEN "Ok" ELSE "RecvError"

\* mpsc Receiver::recv on the result queue ("Block": the call does not return yet)
recv(queue, senders) ==
    IF queue # <<>> THEN "Ok"
    ELSE IF senders = 0 THEN "RecvError"
    ELSE "Block"

\* the filters of the producer loop without the is_file() test
is_enqueued_any_kind(entry) == entry.kind # "err"

\* the filters of the producer loop: e.ok() and e.file_type().is_file()
is_enqueued(entry) == entry.kind # "err" /\ entry.kind = "file"

\* ------------------------------------------------------------ initial states
\* a command line with which the run starts: two scanners, no fault
BaseCli(threads, format) ==
    [yara |-> "none", filenames |-> "valid", levenshtein |-> FALSE,
     file_hash |-> "valid", logger_ok |-> TRUE, threads |-> threads,
     output_format |-> format, print_strings |-> FALSE, display_progress |-> FALSE]

\* the content of a file for which only the scanners of scs yield items
ContentsFor(scs, items) ==
    {c \in [ScannerSet -> items] : \A s \in ScannerSet \ scs : c[s] = <<>>}

\* a file on which the filename scanner fails once and then matches, and the
\* hash scanner matches
Mixed == [Clean EXCEPT !["filename"] = <<"Err", "Ok">>, !["hash"] = <<"Ok">>]

PipelineEntries ==
    {DirEntry("dir", Clean), DirEntry("err", Clean), DirEntry("file", Clean),
     DirEntry("file", Mixed)}

Enabled(c) == {scanner_list(c)[i] : i \in 1..Len(scanner_list(c))}

\* any worker count, any walk, any output format
InitPipeline ==
    /\ cli \in {BaseCli(n, f) : n \in 0..MaxWorkers, f \in OutputFormat}
    /\ tree \in SeqsUpTo(PipelineEntries, MaxWalk)

\* one worker, one file, the default output format: any scanner set, any
\* result sequences of the scanners
InitScan ==
    /\ cli \in {[BaseCli(1, "Txt") EXCEPT !.yara = y, !.filenames = fn,
                                          !.levenshtein = l, !.file_hash = h] :
                   y \in {"none", "ok"}, fn \in {"none", "valid"},
                   l \in BOOLEAN, h \in {"none", "valid"}}
    /\ tree \in {<<DirEntry("file", c)>> :
                   c \in ContentsFor(Enabled(cli), SeqsUpTo(ScanItem, MaxItems))}

\* one worker, a symlink and a matching file: any command line
InitConfig ==
    /\ cli \in [yara : {"none", "ok", "missing", "invalid"},
                filenames : {"none", "valid", "invalid"},
                levenshtein : BOOLEAN,
                file_hash : {"none", "valid", "invalid"},
                logger_ok : BOOLEAN, threads : {1},
                output_format : OutputFormat, print_strings : BOOLEAN,
                display_progress : BOOLEAN]
    /\ tree = <<DirEntry("symlink", Clean), DirEntry("file", Mixed)>>

\* the state before main calls Dionysos::new
InitState ==
    /\ DISPLAY_STRINGS = FALSE
    /\ main_pc = "parse_options"
    /\ scanners = <<>>
    /\ spawned = 0
    /\ pos = 1
    /\ rx_in = <<>>
    /\ rx_in_live = 1
    /\ tx_in_alive = TRUE
    /\ tx_out = 1
    /\ rx_out_alive = TRUE
    /\ results = <<>>
    /\ w_pc = [w \in Workers |-> "unspawned"]
    /\ w_entry = [w \in Workers |-> 0]
    /\ w_result = [w \in Workers |-> NoResult]
    /\ writer_pc = "unspawned"
    /\ output_options = NoOptions
    /\ stdout = <<>>
    /\ errlog = {}
    /\ enqueued = <<>>
    /\ handled = [i \in 1..Len(tree) |-> 0]
    /\ sent = <<>>
    /\ received = <<>>
    /\ printed = <<>>
    /\ progress = NoProgress
    /\ mystatus = [w \in Workers |-> "None"]

\* a FileEnumerator with n registered consumers, before run is called
EnumState(n) ==
    /\ fe_pc = "start"
    /\ fe_pos = 1
    /\ fe_next = 1
    /\ fe_consumers = n
    /\ fe_senders = 0
    /\ fe_alive = [c \in Consumers |-> c <= n]
    /\ fe_delivered = [c \in Consumers |-> <<>>]
    /\ fe_joined = <<>>
    /\ fe_registered = n

Init == (InitPipeline \/ InitScan \/ InitConfig) /\ InitState /\ EnumState(0)

\* ------------------------------------------------------------------ actions
inputs == <<cli, tree, DISPLAY_STRINGS>>

enumerator == <<fe_pc, fe_pos, fe_next, fe_consumers, fe_senders, fe_alive,
               fe_delivered, fe_joined, fe_registered>>

main_vars == <<main_pc, scanners, spawned, pos, tx_in_alive, enqueued>>

worker_vars == <<w_pc, w_entry, w_result, errlog, handled, sent>>

writer_vars == <<writer_pc, output_options, rx_out_alive, stdout, received, printed>>

\* Dionysos::new: parse_options
ParseOptions ==
    /\ main_pc = "parse_options"
    /\ main_pc' = CASE parse_options(cli) = "Err" -> "returned_err"
                    [] parse_options(cli) = "Panic" -> "panicked"
                    [] OTHER -> "init_logging"
    /\ UNCHANGED <<inputs, enumerator, progress, mystatus, scanners, spawned, pos, tx_in_alive, enqueued, rx_in, rx_in_live,
                   tx_out, results, worker_vars, writer_vars>>

\* Dionysos::run: self.init_logging()?
InitLogging ==
    /\ main_pc = "init_logging"
    /\ main_pc' = IF init_logging(cli) = "Err" THEN "returned_err" ELSE "init_scanners"
    /\ UNCHANGED <<inputs, enumerator, progress, mystatus, scanners, spawned, pos, tx_in_alive, enqueued, rx_in, rx_in_live,
                   tx_out, results, worker_vars, writer_vars>>

\* Dionysos::run: let scanners = self.init_scanners()?
InitScanners ==
    /\ main_pc = "init_scanners"
    /\ IF init_scanners(cli) = "Err"
       THEN main_pc' = "returned_err" /\ UNCHANGED scanners
       ELSE main_pc' = "create_progress" /\ scanners' = scanner_list(cli)
    /\ UNCHANGED <<inputs, enumerator, progress, mystatus, spawned, pos, tx_in_alive, enqueued, rx_in, rx_in_live,
                   tx_out, results, worker_vars, writer_vars>>

\* Dionysos::run: let (m_progress, progress) = self.create_progress()?
CreateProgress ==
    /\ main_pc = "create_progress"
    /\ progress' = create_progress(cli, tree)
    /\ main_pc' = "spawn_workers"
    /\ UNCHANGED <<inputs, enumerator, mystatus, scanners, spawned, pos, tx_in_alive, enqueued,
                   rx_in, rx_in_live, tx_out, results, worker_vars, writer_vars>>

\* one iteration of for _id in 0..max_workers: the worker gets a spinner (with
\* --progress), clones of rx_in and tx_out, and starts running
SpawnWorker ==
    /\ main_pc = "spawn_workers"
    /\ spawned < cli.threads
    /\ spawned' = spawned + 1
    /\ rx_in_live' = rx_in_live + 1
    /\ tx_out' = tx_out + 1
    /\ w_pc' = [w_pc EXCEPT ![spawned + 1] = "try_recv"]
    /\ mystatus' = [mystatus EXCEPT ![spawned + 1] =
                        IF cli.display_progress THEN "spinner" ELSE "None"]
    /\ UNCHANGED <<inputs, enumerator, progress, main_pc, scanners, pos, tx_in_alive, enqueued, rx_in,
                   results, w_entry, w_result, errlog, handled, sent, writer_vars>>

\* the end of the spawn loop without drop(tx_out)
DropTxOutKept ==
    /\ main_pc = "spawn_workers"
    /\ spawned >= cli.threads
    /\ main_pc' = "spawn_writer"
    /\ UNCHANGED <<inputs, enumerator, progress, mystatus, scanners, spawned, pos, tx_in_alive, enqueued, rx_in,
                   rx_in_live, tx_out, results, worker_vars, writer_vars>>

\* the end of the spawn loop and drop(tx_out)
DropTxOut ==
    /\ main_pc = "spawn_workers"
    /\ spawned >= cli.threads
    /\ tx_out' = tx_out - 1
    /\ main_pc' = "spawn_writer"
    /\ UNCHANGED <<inputs, enumerator, progress, mystatus, scanners, spawned, pos, tx_in_alive, enqueued, rx_in, rx_in_live,
                   results, worker_vars, writer_vars>>

\* let writer_thread = thread::spawn(..)
SpawnWriter ==
    /\ main_pc = "spawn_writer"
    /\ writer_pc' = "start"
    /\ main_pc' = "walk"
    /\ UNCHANGED <<inputs, enumerator, progress, mystatus, scanners, spawned, pos, tx_in_alive, enqueued, rx_in, rx_in_live,
                   tx_out, results, worker_vars, output_options, rx_out_alive,
                   stdout, received, printed>>

\* the producer loop over a work queue that holds at most one entry per worker
ProducerStepBounded ==
    /\ main_pc = "walk"
    /\ pos <= Len(tree)
    /\ is_enqueued(tree[pos]) => Len(rx_in) < cli.threads
    /\ pos' = pos + 1
    /\ IF ~is_enqueued(tree[pos])
       THEN UNCHANGED <<main_pc, rx_in, rx_in_live, tx_in_alive, enqueued>>
       ELSE /\ rx_in' = Append(rx_in, pos)
            /\ enqueued' = Append(enqueued, pos)
            /\ UNCHANGED <<main_pc, rx_in_live, tx_in_alive>>
    /\ UNCHANGED <<inputs, enumerator, progress, mystatus, scanners, spawned, tx_out, results, worker_vars, writer_vars>>

\* one item of the walk in the producer loop: filtered out, or sent to the
\* work queue; if the send fails run returns the error, dropping tx_in and
\* rx_in
ProducerStep ==
    /\ main_pc = "walk"
    /\ pos <= Len(tree)
    /\ pos' = pos + 1
    /\ IF ~is_enqueued(tree[pos])
       THEN UNCHANGED <<main_pc, rx_in, rx_in_live, tx_in_alive, enqueued>>
       ELSE IF send_in(rx_in_live) = "Ok"
       THEN /\ rx_in' = Append(rx_in, pos)
            /\ enqueued' = Append(enqueued, pos)
            /\ UNCHANGED <<main_pc, rx_in_live, tx_in_alive>>
       ELSE /\ main_pc' = "returned_err"
            /\ tx_in_alive' = FALSE
            /\ rx_in_live' = rx_in_live - 1
            /\ UNCHANGED <<rx_in, enqueued>>
    /\ UNCHANGED <<inputs, enumerator, progress, mystatus, scanners, spawned, tx_out, results, worker_vars, writer_vars>>

\* the walk is exhausted: drop(tx_in).  The next statement builds a lazy map
\* over the workers' join handles and drops it, which joins no worker.
DropTxIn ==
    /\ main_pc = "walk"
    /\ pos > Len(tree)
    /\ tx_in_alive' = FALSE
    /\ main_pc' = "join_writer"
    /\ UNCHANGED <<inputs, enumerator, progress, mystatus, scanners, spawned, pos, enqueued, rx_in, rx_in_live, tx_out,
                   results, worker_vars, writer_vars>>

\* let _ = writer_thread.join() returns once the writer thread has ended (its
\* result is ignored), and run returns Ok(()), dropping rx_in
JoinWriter ==
    /\ main_pc = "join_writer"
    /\ writer_pc \in {"done", "panicked"}
    /\ main_pc' = "returned_ok"
    /\ rx_in_live' = rx_in_live - 1
    /\ UNCHANGED <<inputs, enumerator, progress, mystatus, scanners, spawned, pos, tx_in_alive, enqueued, rx_in,
                   tx_out, results, worker_vars, writer_vars>>

\* the worker's try_recv leaving the received entry in the work queue
WorkerTryRecvPeek(w) ==
    /\ w_pc[w] = "try_recv"
    /\ LET r == try_recv(rx_in, tx_in_alive)
       IN  CASE r = "Ok" ->
                  /\ w_entry' = [w_entry EXCEPT ![w] = Head(rx_in)]
                  /\ w_pc' = [w_pc EXCEPT ![w] = "handle_file"]
                  /\ progress' = inc(progress)
                  /\ UNCHANGED <<rx_in, rx_in_live, tx_out, mystatus>>
             [] r = "Empty" ->
                  /\ w_pc' = [w_pc EXCEPT ![w] = "sleep"]
                  /\ UNCHANGED <<w_entry, rx_in, rx_in_live, tx_out, progress, mystatus>>
             [] r = "Disconnected" ->
                  /\ rx_in_live' = rx_in_live - 1
                  /\ tx_out' = tx_out - 1
                  /\ w_pc' = [w_pc EXCEPT ![w] = "return"]
                  /\ mystatus' = [mystatus EXCEPT ![w] = finish_and_clear(@)]
                  /\ UNCHANGED <<w_entry, rx_in, progress>>
    /\ UNCHANGED <<inputs, enumerator, main_vars, results, w_result, errlog, handled, sent,
                   writer_vars>>

\* worker: rx_ref.try_recv(); on Ok p.inc(1); on Disconnected
\* finish_and_clear, drop(rx), drop(tx)
WorkerTryRecv(w) ==
    /\ w_pc[w] = "try_recv"
    /\ LET r == try_recv(rx_in, tx_in_alive)
       IN  CASE r = "Ok" ->
                  /\ w_entry' = [w_entry EXCEPT ![w] = Head(rx_in)]
                  /\ rx_in' = Tail(rx_in)
                  /\ w_pc' = [w_pc EXCEPT ![w] = "handle_file"]
                  /\ progress' = inc(progress)
                  /\ UNCHANGED <<rx_in_live, tx_out, mystatus>>
             [] r = "Empty" ->
                  /\ w_pc' = [w_pc EXCEPT ![w] = "sleep"]
                  /\ UNCHANGED <<w_entry, rx_in, rx_in_live, tx_out, progress, mystatus>>
             [] r = "Disconnected" ->
                  /\ rx_in_live' = rx_in_live - 1
                  /\ tx_out' = tx_out - 1
                  /\ w_pc' = [w_pc EXCEPT ![w] = "return"]
                  /\ mystatus' = [mystatus EXCEPT ![w] = finish_and_clear(@)]
                  /\ UNCHANGED <<w_entry, rx_in, progress>>
    /\ UNCHANGED <<inputs, enumerator, main_vars, results, w_result, errlog, handled, sent,
                   writer_vars>>

\* worker: thread::sleep(100 ms); continue
WorkerWake(w) ==
    /\ w_pc[w] = "sleep"
    /\ w_pc' = [w_pc EXCEPT ![w] = "try_recv"]
    /\ UNCHANGED <<inputs, enumerator, progress, mystatus, main_vars, rx_in, rx_in_live, tx_out, results, w_entry, w_result,
                   errlog, handled, sent, writer_vars>>

\* worker: let result = handle_file(&scanners, &entry)
WorkerHandleFile(w) ==
    /\ w_pc[w] = "handle_file"
    /\ LET st == handle_file(scanners, w_entry[w], tree[w_entry[w]])
       IN  /\ w_result' = [w_result EXCEPT ![w] = st.result]
           /\ errlog' = errlog \cup st.log
    /\ handled' = [handled EXCEPT ![w_entry[w]] = @ + 1]
    /\ w_pc' = [w_pc EXCEPT ![w] = "send"]
    /\ UNCHANGED <<inputs, enumerator, progress, mystatus, main_vars, rx_in, rx_in_live, tx_out, results, w_entry, sent,
                   writer_vars>>

\* the worker's send with an error arm that logs and goes on polling
WorkerSendErrorIgnored(w) ==
    /\ w_pc[w] = "send"
    /\ IF send_out(rx_out_alive) = "Ok"
       THEN /\ results' = Append(results, w_result[w])
            /\ sent' = Append(sent, w_result[w])
            /\ UNCHANGED errlog
       ELSE /\ errlog' = errlog \cup {ScannerFinding("send", w_entry[w], 0)}
            /\ UNCHANGED <<results, sent>>
    /\ w_pc' = [w_pc EXCEPT ![w] = "try_recv"]
    /\ w_entry' = [w_entry EXCEPT ![w] = 0]
    /\ w_result' = [w_result EXCEPT ![w] = NoResult]
    /\ UNCHANGED <<inputs, enumerator, progress, mystatus, main_vars, rx_in, rx_in_live, tx_out,
                   handled, writer_vars>>

\* worker: tx_ref.send(result); on an error log it, finish_and_clear,
\* drop(rx), drop(tx)
WorkerSend(w) ==
    /\ w_pc[w] = "send"
    /\ IF send_out(rx_out_alive) = "Ok"
       THEN /\ results' = Append(results, w_result[w])
            /\ sent' = Append(sent, w_result[w])
            /\ w_pc' = [w_pc EXCEPT ![w] = "try_recv"]
            /\ UNCHANGED <<rx_in_live, tx_out, errlog, mystatus>>
       ELSE /\ errlog' = errlog \cup {ScannerFinding("send", w_entry[w], 0)}
            /\ rx_in_live' = rx_in_live - 1
            /\ tx_out' = tx_out - 1
            /\ w_pc' = [w_pc EXCEPT ![w] = "return"]
            /\ mystatus' = [mystatus EXCEPT ![w] = finish_and_clear(@)]
            /\ UNCHANGED <<results, sent>>
    /\ w_entry' = [w_entry EXCEPT ![w] = 0]
    /\ w_result' = [w_result EXCEPT ![w] = NoResult]
    /\ UNCHANGED <<inputs, enumerator, progress, main_vars, rx_in, handled, writer_vars>>

\* worker: return (both channel ends are dropped already)
WorkerReturn(w) ==
    /\ w_pc[w] = "return"
    /\ w_pc' = [w_pc EXCEPT ![w] = "done"]
    /\ UNCHANGED <<inputs, enumerator, progress, mystatus, main_vars, rx_in, rx_in_live, tx_out, results, w_entry, w_result,
                   errlog, handled, sent, writer_vars>>

\* writer: let mut output_options = cli.output_format.into_options(stdout)
WriterStart ==
    /\ writer_pc = "start"
    /\ output_options' = into_options(cli.output_format)
    /\ writer_pc' = "recv"
    /\ UNCHANGED <<inputs, enumerator, progress, mystatus, main_vars, rx_in, rx_in_live, tx_out, results, worker_vars,
                   rx_out_alive, stdout, received, printed>>

\* the Ok arm of the writer without the has_findings test
WriterRecvUnfiltered ==
    /\ writer_pc = "recv"
    /\ recv(results, tx_out) = "Ok"
    /\ results' = Tail(results)
    /\ received' = Append(received, Head(results))
    /\ stdout' = print_result(stdout, output_options, Head(results))
    /\ printed' = Append(printed, Head(results))
    /\ UNCHANGED <<inputs, enumerator, progress, mystatus, main_vars, rx_in, rx_in_live, tx_out, worker_vars, writer_pc,
                   output_options, rx_out_alive>>

\* writer: rx_out.recv() returns Ok(result)
WriterRecv ==
    /\ writer_pc = "recv"
    /\ recv(results, tx_out) = "Ok"
    /\ results' = Tail(results)
    /\ received' = Append(received, Head(results))
    /\ IF has_findings(Head(results))
       THEN /\ stdout' = print_result(stdout, output_options, Head(results))
            /\ printed' = Append(printed, Head(results))
       ELSE UNCHANGED <<stdout, printed>>
    /\ UNCHANGED <<inputs, enumerator, progress, mystatus, main_vars, rx_in, rx_in_live, tx_out, worker_vars, writer_pc,
                   output_options, rx_out_alive>>

\* writer: rx_out.recv() returns Err(RecvError): drop(rx_out); break
WriterDisconnected ==
    /\ writer_pc = "recv"
    /\ recv(results, tx_out) = "RecvError"
    /\ rx_out_alive' = FALSE
    /\ writer_pc' = "done"
    /\ UNCHANGED <<inputs, enumerator, progress, mystatus, main_vars, rx_in, rx_in_live, tx_out, results, worker_vars,
                   output_options, stdout, received, printed>>

\* the writer thread panics while it formats a finding of the result it has
\* received; unwinding drops rx_out and what the result queue holds
WriterPanics ==
    /\ writer_pc = "recv"
    /\ recv(results, tx_out) = "Ok"
    /\ has_findings(Head(results))
    /\ results' = <<>>
    /\ received' = Append(received, Head(results))
    /\ rx_out_alive' = FALSE
    /\ writer_pc' = "panicked"
    /\ UNCHANGED <<inputs, enumerator, progress, mystatus, main_vars, rx_in, rx_in_live, tx_out,
                   worker_vars, output_options, stdout, printed>>

Main ==
    \/ ParseOptions
    \/ InitLogging
    \/ InitScanners
    \/ CreateProgress
    \/ SpawnWorker
    \/ DropTxOut
    \/ SpawnWriter
    \/ ProducerStep
    \/ DropTxIn
    \/ JoinWriter

worker(w) ==
    \/ WorkerTryRecv(w)
    \/ WorkerWake(w)
    \/ WorkerHandleFile(w)
    \/ WorkerSend(w)
    \/ WorkerReturn(w)

Writer ==
    \/ WriterStart
    \/ WriterRecv
    \/ WriterDisconnected

Next ==
    \/ Main
    \/ \E w \in Workers : worker(w)
    \/ Writer

Spec == Init /\ [][Next]_vars

\* every thread that can take a step is eventually scheduled
Fairness ==
    /\ WF_vars(Main)
    /\ \A w \in Workers : WF_vars(worker(w))
    /\ WF_vars(Writer)

\* the runs of the pipeline family
LiveInit == InitPipeline /\ InitState /\ EnumState(0)

LiveSpec == LiveInit /\ [][Next]_vars /\ Fairness

\* runs in which the writer thread may panic: any worker count N >= 1, with
\* and without --progress
FaultInit ==
    /\ cli \in {[BaseCli(n, "Txt") EXCEPT !.display_progress = p] :
                   n \in 1..MaxWorkers, p \in BOOLEAN}
    /\ tree \in SeqsUpTo(PipelineEntries, MaxWalk)
    /\ InitState
    /\ EnumState(0)

FaultNext == Next \/ WriterPanics

FaultSpec == FaultInit /\ [][FaultNext]_vars /\ Fairness

\* ------------------------------------------------- FileEnumerator::run
pipeline == <<cli, DISPLAY_STRINGS, main_pc, scanners, spawned, pos, rx_in,
              rx_in_live, tx_in_alive, tx_out, rx_out_alive, results, w_pc, w_entry,
              w_result, writer_pc, output_options, stdout, errlog, enqueued, handled,
              sent, received, printed, progress, mystatus>>

\* generate_senders(self.consumers.iter_mut()): one sender per consumer
generate_senders(consumers) == consumers

\* the filter of the walk of FileEnumerator::run: e.ok()
is_walked(entry) == entry.kind # "err"

\* sender.send(..) to a consumer: an error once its receiver is gone
send_consumer(receiver_alive) == IF receiver_alive THEN "Ok" ELSE "Err"

\* let mut senders = generate_senders(self.consumers.iter_mut())
FeGenerateSenders ==
    /\ fe_pc = "start"
    /\ fe_senders' = generate_senders(fe_consumers)
    /\ fe_pc' = "walk"
    /\ UNCHANGED <<tree, pipeline, fe_pos, fe_next, fe_consumers, fe_alive,
                   fe_delivered, fe_joined, fe_registered>>

\* the next item of the walk: filtered out, or wrapped in an Arc to be sent
\* to every sender (at once the item after it when there is no sender)
FeWalkStep ==
    /\ fe_pc = "walk"
    /\ fe_pos <= Len(tree)
    /\ IF is_walked(tree[fe_pos]) /\ fe_senders > 0
       THEN fe_pc' = "send" /\ fe_next' = 1 /\ UNCHANGED fe_pos
       ELSE fe_pos' = fe_pos + 1 /\ UNCHANGED <<fe_pc, fe_next>>
    /\ UNCHANGED <<tree, pipeline, fe_consumers, fe_senders, fe_alive,
                   fe_delivered, fe_joined, fe_registered>>

\* the send to a consumer with its error ignored (let _ = sender.send(..))
FeSendErrorIgnored ==
    /\ fe_pc = "send"
    /\ IF send_consumer(fe_alive[fe_next]) = "Ok"
       THEN fe_delivered' = [fe_delivered EXCEPT ![fe_next] = Append(@, fe_pos)]
       ELSE UNCHANGED fe_delivered
    /\ IF fe_next < fe_senders
       THEN fe_next' = fe_next + 1 /\ UNCHANGED <<fe_pc, fe_pos>>
       ELSE fe_pc' = "walk" /\ fe_pos' = fe_pos + 1 /\ UNCHANGED fe_next
    /\ UNCHANGED <<tree, pipeline, fe_consumers, fe_senders, fe_alive, fe_joined,
                   fe_registered>>

\* sender.send(Arc::clone(&path))?: the entry goes to the next sender; on an
\* error run returns it, which drops the senders
FeSend ==
    /\ fe_pc = "send"
    /\ IF send_consumer(fe_alive[fe_next]) = "Ok"
       THEN /\ fe_delivered' = [fe_delivered EXCEPT ![fe_next] = Append(@, fe_pos)]
            /\ IF fe_next < fe_senders
               THEN fe_next' = fe_next + 1 /\ UNCHANGED <<fe_pc, fe_pos>>
               ELSE fe_pc' = "walk" /\ fe_pos' = fe_pos + 1 /\ UNCHANGED fe_next
            /\ UNCHANGED fe_senders
       ELSE /\ fe_pc' = "returned_err"
            /\ fe_senders' = 0
            /\ UNCHANGED <<fe_delivered, fe_next, fe_pos>>
    /\ UNCHANGED <<tree, pipeline, fe_consumers, fe_alive, fe_joined, fe_registered>>

\* the walk is exhausted: senders.clear()
FeClearSenders ==
    /\ fe_pc = "walk"
    /\ fe_pos > Len(tree)
    /\ fe_senders' = 0
    /\ fe_pc' = "join"
    /\ fe_next' = 1
    /\ UNCHANGED <<tree, pipeline, fe_pos, fe_consumers, fe_alive, fe_delivered,
                   fe_joined, fe_registered>>

\* one iteration of for consumer in self.consumers.iter_mut(): consumer.join()
FeJoin ==
    /\ fe_pc = "join"
    /\ fe_next <= fe_consumers
    /\ fe_joined' = Append(fe_joined, fe_next)
    /\ fe_next' = fe_next + 1
    /\ UNCHANGED <<tree, pipeline, fe_pc, fe_pos, fe_consumers, fe_senders, fe_alive,
                   fe_delivered, fe_registered>>

\* self.consumers.clear(); Ok(())
FeReturn ==
    /\ fe_pc = "join"
    /\ fe_next > fe_consumers
    /\ fe_consumers' = 0
    /\ fe_pc' = "returned_ok"
    /\ UNCHANGED <<tree, pipeline, fe_pos, fe_next, fe_senders, fe_alive,
                   fe_delivered, fe_joined, fe_registered>>

\* a consumer ends while the enumerator walks, dropping its receiver
ConsumerDies(c) ==
    /\ fe_pc \in {"walk", "send"}
    /\ c <= fe_registered
    /\ fe_alive[c]
    /\ fe_alive' = [fe_alive EXCEPT ![c] = FALSE]
    /\ UNCHANGED <<tree, pipeline, fe_pc, fe_pos, fe_next, fe_consumers, fe_senders,
                   fe_delivered, fe_joined, fe_registered>>

EnumEntries ==
    {DirEntry("dir", Clean), DirEntry("err", Clean), DirEntry("file", Clean),
     DirEntry("symlink", Clean)}

\* a FileEnumerator with any number of consumers on any walk
EnumInit ==
    /\ cli = BaseCli(0, "Txt")
    /\ tree \in SeqsUpTo(EnumEntries, MaxWalk)
    /\ InitState
    /\ \E n \in 0..MaxConsumers : EnumState(n)

EnumNext ==
    \/ FeGenerateSenders
    \/ FeWalkStep
    \/ FeSend
    \/ FeClearSenders
    \/ FeJoin
    \/ FeReturn
    \/ \E c \in Consumers : ConsumerDies(c)

EnumSpec == EnumInit /\ [][EnumNext]_vars

\* ----------------------------------------------------------------- helpers
Range(seq) == {seq[k] : k \in 1..Len(seq)}

\* the run got past configuration: threads are spawned and files are walked
RunStarts ==
    parse_options(cli) = "Ok" /\ init_logging(cli) = "Ok" /\ init_scanners(cli) = "Ok"

\* the walk indexes of the regular files
RegularFiles == {f \in 1..Len(tree) : tree[f].kind = "file"}

\* the findings the scanners of the set yield for the regular files of the tree
Yielded ==
    UNION {{ScannerFinding(sc, f, j) :
               j \in {k \in 1..Len(tree[f].content[sc]) : tree[f].content[sc][k] = "Ok"}} :
           sc \in Enabled(cli), f \in RegularFiles}

\* the (scanner, file, match identifier) triple of a finding or of an output record
Triple(r) == <<r.scanner, r.file, r.id>>

\* how many records of the output carry the triple of finding fd
Written(fd) == Cardinality({k \in 1..Len(stdout) : Triple(stdout[k]) = Triple(fd)})

\* C1: when a run with N >= 1 workers has completed, every finding a scanner
\* of the set yields for an enumerated regular file is in the output exactly
\* once, and the output holds nothing else, whatever N and the interleaving.
C1_WrittenExactlyOnce ==
    (main_pc = "returned_ok" /\ cli.threads >= 1)
        => /\ \A fd \in Yielded : Written(fd) = 1
           /\ \A k \in 1..Len(stdout) : \E fd \in Yielded : Triple(stdout[k]) = Triple(fd)

\* C1 for the two formats that do write records: the property above holds
\* when the output format is not Csv.
C1_WrittenExactlyOnceTxtJson ==
    cli.output_format # "Csv" => C1_WrittenExactlyOnce

\* C2: print_result is called only for results that have findings, and every
\* record of the output belongs to a received result that has findings.
C2_EmptyNeverSerialized ==
    /\ \A k \in 1..Len(printed) : Len(printed[k].findings) > 0
    /\ \A k \in 1..Len(stdout) :
          \E r \in Range(received) : r.file = stdout[k].file /\ Len(r.findings) > 0

C2_Witness ==
    /\ \E r \in Range(received) : Len(r.findings) = 0
    /\ Len(printed) >= 1
    /\ Len(stdout) >= 1

\* the items of scanner i's result sequence for file f
Items(i, f) == tree[f].content[scanners[i]]

\* C3: a ScannerError is only logged: the result handle_file returns holds
\* no finding for an Err item and holds the finding of every Ok item, those
\* after an Err of the same scanner and those of the other scanners
\* included; and when the run has completed every enqueued file was handled.
C3_ErrorsOnlyLogged ==
    /\ \A w \in Workers : w_pc[w] = "send" =>
          \A i \in 1..Len(scanners) : \A j \in 1..Len(Items(i, w_entry[w])) :
             LET fd == ScannerFinding(scanners[i], w_entry[w], j)
             IN  IF Items(i, w_entry[w])[j] = "Err"
                 THEN fd \notin Range(w_result[w].findings) /\ fd \in errlog
                 ELSE fd \in Range(w_result[w].findings)
    /\ (main_pc = "returned_ok" /\ cli.threads >= 1)
          => \A f \in RegularFiles : handled[f] = 1

C3_Witness ==
    /\ main_pc = "returned_ok"
    /\ \E k \in 1..Len(sent) : \E a, b \in 1..Len(sent[k].findings) :
          /\ ScannerFinding("filename", sent[k].file, 1) \in errlog
          /\ sent[k].findings[a] = ScannerFinding("filename", sent[k].file, 2)
          /\ sent[k].findings[b].scanner = "hash"
          /\ \E f \in RegularFiles : f > sent[k].file /\ handled[f] = 1

\* the walk indexes below n of the regular files, in walk order
RECURSIVE RegularBefore(_)
RegularBefore(n) ==
    IF n <= 1 THEN <<>>
    ELSE IF tree[n - 1].kind = "file" THEN Append(RegularBefore(n - 1), n - 1)
    ELSE RegularBefore(n - 1)

\* C4: the producer has enqueued exactly the regular files among the walk
\* items it has visited, once each; it visits every item of the walk, the
\* ones after a failed or non-regular item included.
C4_ProducerEnqueuesRegularFiles ==
    /\ enqueued = RegularBefore(pos)
    /\ main_pc \in {"join_writer", "returned_ok"} => pos = Len(tree) + 1

C4_Witness ==
    /\ main_pc = "join_writer"
    /\ Len(tree) >= 2
    /\ tree[1].kind \in {"err", "dir", "symlink"}
    /\ enqueued = <<2>>

\* the workers that run spawns
Spawnable == 1..cli.threads

\* C5: run returns only after the producer has exhausted the walk and closed
\* the work queue, every worker has found the work queue closed and empty
\* and has exited its loop (its thread function has returned), and the
\* writer has received every result a worker sent.
C5_ReturnsAfterAllExited ==
    (main_pc = "returned_ok" /\ cli.threads >= 1)
        => /\ pos = Len(tree) + 1 /\ ~tx_in_alive
           /\ rx_in = <<>>
           /\ \A w \in Spawnable : w_pc[w] = "done"
           /\ received = sent

\* C5 without the return of the worker threads: when run returns every
\* worker has found the work queue closed and empty and has dropped both
\* its channel ends, though it may not have returned yet.
C5_ReturnsAfterAllDisconnected ==
    (main_pc = "returned_ok" /\ cli.threads >= 1)
        => /\ pos = Len(tree) + 1 /\ ~tx_in_alive
           /\ rx_in = <<>>
           /\ \A w \in Spawnable : w_pc[w] \in {"return", "done"}
           /\ received = sent

\* the run has completed: run has returned, the writer has exited and every
\* worker has left its loop
Completed ==
    /\ main_pc = "returned_ok"
    /\ writer_pc = "done"
    /\ \A w \in Spawnable : w_pc[w] \in {"return", "done"}

\* C6: with N >= 1 workers and a configuration with which the run starts,
\* under fair scheduling of the threads the run eventually completes: the
\* workers leave their polling loop, the writer exits and run returns.
C6_Terminates == (RunStarts /\ cli.threads >= 1) => <>Completed

C6_Witness ==
    /\ Completed
    /\ cli.threads >= 2
    /\ Len(sent) >= 2

\* the triples of a sequence of findings or of output records
Triples(seq) == [k \in 1..Len(seq) |-> Triple(seq[k])]

\* C7: for every result handed to print_result, each of the three formats
\* emits one record per finding, carrying the triples of the findings.
C7_FormatsCarrySameTriples ==
    \A k \in 1..Len(printed) : \A d \in OutputFormat :
        Triples(print_result(<<>>, into_options(d), printed[k])) = Triples(printed[k].findings)

\* C7 for the two formats that do write records.
C7_TxtJsonCarrySameTriples ==
    \A k \in 1..Len(printed) : \A d \in {"Txt", "Json"} :
        Triples(print_result(<<>>, into_options(d), printed[k])) = Triples(printed[k].findings)

\* the position of a scanner in the scanner list
Rank(scanner) == CHOOSE i \in 1..Len(scanners) : scanners[i] = scanner

\* seq, records with a scanner field, is in scanner-set order
InScannerOrder(seq) ==
    \A a, b \in 1..Len(seq) : a < b => Rank(seq[a].scanner) <= Rank(seq[b].scanner)

\* the records of the output that belong to file f, in output order
RECURSIVE RecordsOf(_, _)
RecordsOf(f, n) ==
    IF n = 0 THEN <<>>
    ELSE IF stdout[n].file = f THEN Append(RecordsOf(f, n - 1), stdout[n])
    ELSE RecordsOf(f, n - 1)

\* C8: within the result of one file, and within the output records of one
\* file, the findings of an earlier scanner of the set precede those of a
\* later scanner.
C8_FindingsInScannerOrder ==
    /\ \A k \in 1..Len(sent) : InScannerOrder(sent[k].findings)
    /\ \A f \in RegularFiles : InScannerOrder(RecordsOf(f, Len(stdout)))

C8_Witness ==
    \E k \in 1..Len(sent) :
        /\ Len(sent[k].findings) >= 3
        /\ sent[k].findings[1].scanner = sent[k].findings[2].scanner
        /\ sent[k].findings[2].scanner # sent[k].findings[3].scanner
        /\ Len(RecordsOf(sent[k].file, Len(stdout))) >= 3

\* a fatal configuration error: the logger cannot be initialised, the rule
\* corpus is missing, a regex or a hash is invalid, a scanner cannot be built
FatalConfiguration == ~RunStarts

\* nothing of the pipeline has started
NothingStarted ==
    /\ spawned = 0 /\ \A w \in Workers : w_pc[w] = "unspawned"
    /\ writer_pc = "unspawned"
    /\ enqueued = <<>> /\ rx_in = <<>>
    /\ stdout = <<>>

\* C9: with a fatal configuration error parse_options or run returns the
\* error, and no thread is spawned, no file enqueued and no record written.
C9_FatalConfigurationReturnsError ==
    FatalConfiguration
        => /\ main_pc \in {"parse_options", "init_logging", "init_scanners", "returned_err"}
           /\ NothingStarted

\* C9 without the claim that the error is returned: with a fatal
\* configuration error the process ends by an error return or by a panic
\* before anything of the pipeline has started.
C9_FatalConfigurationStartsNothing ==
    FatalConfiguration
        => /\ main_pc \in {"parse_options", "init_logging", "init_scanners",
                           "returned_err", "panicked"}
           /\ NothingStarted

\* C10: whenever findings have been serialized, the writer's print_strings
\* option and the flag display_strings() reads equal the operator's
\* --print-strings flag, and so does the disclosure of every record.
C10_DisclosureFollowsFlag ==
    printed # <<>>
        => /\ output_options.print_strings = cli.print_strings
           /\ display_strings = cli.print_strings
           /\ \A k \in 1..Len(stdout) : stdout[k].strings = cli.print_strings

\* the places where walk index f is: in the work queue, held by a worker
InQueue(f) == {k \in 1..Len(rx_in) : rx_in[k] = f}

Holders(f) == {w \in Workers : w_entry[w] = f}

ResultsFor(f) == {k \in 1..Len(sent) : sent[k].file = f}

\* C11: an enqueued entry is received by at most one worker and handle_file
\* is called at most once on it, in every interleaving; when a run with
\* N >= 1 workers has completed, handle_file was called exactly once on
\* every regular file and exactly one result per regular file was sent.
C11_EachEntryToOneWorker ==
    /\ \A f \in 1..Len(tree) :
          /\ Cardinality(InQueue(f)) + Cardinality(Holders(f)) + Cardinality(ResultsFor(f)) <= 1
          /\ handled[f] <= 1
          /\ Cardinality(ResultsFor(f)) <= handled[f]
    /\ (main_pc = "returned_ok" /\ cli.threads >= 1)
          => \A f \in 1..Len(tree) :
                /\ handled[f] = (IF f \in RegularFiles THEN 1 ELSE 0)
                /\ Cardinality(ResultsFor(f)) = handled[f]

C11_Witness ==
    /\ main_pc = "returned_ok"
    /\ cli.threads >= 2
    /\ Len(sent) >= 2
    /\ \E w1, w2 \in Workers : w1 # w2 /\ w_pc[w1] = "done" /\ w_pc[w2] = "return"

\* C12: a worker leaves its loop only from try_recv on a closed and empty
\* work queue or from a failed send; on an empty open queue it only sleeps
\* and polls again; while the queue holds entries, closed or not, try_recv
\* takes the first one and the worker scans it.
C12_WorkerLeavesOnlyWhenClosedAndEmpty ==
    [][\A w \in Workers :
          /\ (w_pc[w] \in {"try_recv", "sleep", "handle_file", "send"} /\ w_pc'[w] = "return")
                => \/ w_pc[w] = "try_recv" /\ ~tx_in_alive /\ rx_in = <<>>
                   \/ w_pc[w] = "send" /\ ~rx_out_alive
          /\ (w_pc[w] = "try_recv" /\ w_pc'[w] # "try_recv" /\ rx_in = <<>> /\ tx_in_alive)
                => w_pc'[w] = "sleep" /\ rx_in' = rx_in
          /\ (w_pc[w] = "sleep" /\ w_pc'[w] # "sleep") => w_pc'[w] = "try_recv"
          /\ (w_pc[w] = "try_recv" /\ w_pc'[w] # "try_recv" /\ rx_in # <<>>)
                => /\ w_pc'[w] = "handle_file"
                   /\ w_entry'[w] = Head(rx_in)
                   /\ rx_in' = Tail(rx_in)
          /\ (w_pc[w] = "handle_file" /\ w_pc'[w] # "handle_file") => w_pc'[w] = "send"]_vars

C12_Witness ==
    /\ ~tx_in_alive
    /\ \E w \in Workers : w_pc[w] = "return"
    /\ Len(sent) >= 1
    /\ \E w \in Workers : w_pc[w] = "sleep"
    /\ rx_in = <<>>

\* C13: the writer has terminated only if the result queue has no sender
\* left (the original is dropped and every spawned worker has dropped its
\* clone) and is empty, every result sent having been received; and once
\* the queue has no sender left the writer does terminate.
C13_WriterTerminatesWhenNoProducers ==
    /\ [](writer_pc = "done"
            => /\ tx_out = 0 /\ results = <<>>
               /\ received = sent
               /\ main_pc \in {"walk", "join_writer", "returned_ok"}
               /\ \A w \in Spawnable : w_pc[w] \in {"return", "done"})
    /\ ((writer_pc # "unspawned" /\ tx_out = 0) ~> writer_pc = "done")

C13_Witness ==
    /\ writer_pc = "done"
    /\ cli.threads >= 2
    /\ Len(received) >= 2

\* seq is the last Len(seq) elements of whole
IsSuffix(seq, whole) ==
    /\ Len(seq) <= Len(whole)
    /\ \A k \in 1..Len(seq) : seq[k] = whole[Len(whole) - Len(seq) + k]

\* C15 as claimed: with N >= 1 workers the work queue never holds more
\* entries than there are workers.
C15_QueueBoundedByWorkers ==
    cli.threads >= 1 => Len(rx_in) <= cli.threads

\* C15 as amended: the work queue is bounded only by the number of regular
\* files visited so far (it holds the entries enqueued last), and the
\* producer never waits for a worker: while the walk has items left its
\* next step is enabled whatever the queue holds.
C15_QueueBoundedByFilesVisited ==
    /\ IsSuffix(rx_in, enqueued)
    /\ Len(enqueued) <= pos - 1
    /\ (main_pc = "walk" /\ pos <= Len(tree)) => ENABLED ProducerStep

C15_Witness ==
    /\ cli.threads >= 1
    /\ Len(rx_in) > cli.threads
    /\ Len(rx_in) = Len(tree)
    /\ \A w \in Spawnable : w_pc[w] \in {"try_recv", "sleep"}

IsPrefix(seq, whole) ==
    /\ Len(seq) <= Len(whole)
    /\ \A k \in 1..Len(seq) : seq[k] = whole[k]

HasFindings(r) == Len(r.findings) > 0

\* the output print_result builds from the results rs, printed in order
RECURSIVE PrintAll(_, _)
PrintAll(rs, n) ==
    IF n = 0 THEN <<>>
    ELSE print_result(PrintAll(rs, n - 1), output_options, rs[n])

\* the place of file f in the sequence of printed results
PrintedAt(f) == CHOOSE k \in 1..Len(printed) : printed[k].file = f

\* C16: the writer receives the results in the order in which they were
\* sent and prints those with findings at once and in that order: the
\* output is the in-order serialization of the results received so far, and
\* the records of a result sent earlier precede those of a result sent
\* later; with one worker the results are sent in enumeration order.
C16_WrittenInArrivalOrder ==
    /\ IsPrefix(received, sent)
    /\ printed = SelectSeq(received, HasFindings)
    /\ stdout = PrintAll(printed, Len(printed))
    /\ \A a, b \in 1..Len(stdout) :
          a < b => PrintedAt(stdout[a].file) <= PrintedAt(stdout[b].file)
    /\ cli.threads = 1 => IsPrefix([k \in 1..Len(sent) |-> sent[k].file], enqueued)

C16_Witness ==
    /\ cli.threads >= 2
    /\ Len(printed) = 2
    /\ printed[1].file = 2 /\ printed[2].file = 1
    /\ Len(stdout) = 4
    /\ stdout[1].file = 2 /\ stdout[4].file = 1

\* C19: with --threads 0 a run that starts spawns no worker, scans no file
\* and writes nothing; the writer's first recv reports that no sender is
\* left; the producer enqueues every regular file and closes the queue; and
\* run returns Ok.
C19_ZeroWorkersTerminates ==
    (cli.threads = 0 /\ RunStarts)
        => /\ <>(main_pc = "returned_ok")
           /\ [](/\ spawned = 0 /\ \A w \in Workers : w_pc[w] = "unspawned"
                 /\ \A f \in 1..Len(tree) : handled[f] = 0
                 /\ sent = <<>> /\ stdout = <<>>
                 /\ writer_pc = "recv" => recv(results, tx_out) = "RecvError")
           /\ [](main_pc = "returned_ok"
                   => /\ writer_pc = "done"
                      /\ ~tx_in_alive
                      /\ enqueued = RegularBefore(Len(tree) + 1)
                      /\ rx_in = enqueued)

C19_Witness ==
    /\ cli.threads = 0
    /\ main_pc = "returned_ok"
    /\ Len(rx_in) >= 2

\* the entries the workers have received so far
ReceivedByWorkers == {f \in 1..Len(tree) : handled[f] > 0 \/ Holders(f) # {}}

\* C17: with --progress the length of the progress bar is the number of
\* files to be scanned, its position is the number of entries the workers
\* have received, the position never exceeds the length and equals it when
\* a run with N >= 1 workers has completed.
C17_ProgressCountsFiles ==
    progress.shown
        => /\ progress.len = Cardinality(RegularFiles)
           /\ progress.pos = Cardinality(ReceivedByWorkers)
           /\ progress.pos <= progress.len
           /\ (main_pc = "returned_ok" /\ cli.threads >= 1) => progress.pos = progress.len

\* C17 without the length: with --progress the position is the number of
\* entries the workers have received and never exceeds the length, which is
\* the number of all items of the walk.
C17_ProgressPositionCountsReceived ==
    progress.shown
        => /\ progress.len = Len(tree)
           /\ progress.pos = Cardinality(ReceivedByWorkers)
           /\ progress.pos <= progress.len

\* worker w takes the error arm of its send
SendFails(w) == w_pc[w] = "send" /\ ~rx_out_alive /\ w_pc'[w] # "send"

\* C14: a worker whose send fails logs the error, clears its spinner, drops
\* both its channel ends and returns, leaving the work queue, the result
\* queue, the other workers and the main thread as they are; the producer
\* still enqueues every regular file and run still returns.
C14_SendFailureFatalToWorkerOnly ==
    /\ [][\A w \in Workers : SendFails(w)
            => /\ w_pc'[w] = "return"
               /\ ScannerFinding("send", w_entry[w], 0) \in errlog' \ errlog
               /\ mystatus'[w] = finish_and_clear(mystatus[w])
               /\ rx_in_live' = rx_in_live - 1 /\ tx_out' = tx_out - 1
               /\ rx_in' = rx_in /\ results' = results
               /\ \A v \in Workers \ {w} :
                     /\ w_pc'[v] = w_pc[v] /\ w_entry'[v] = w_entry[v]
                     /\ w_result'[v] = w_result[v] /\ mystatus'[v] = mystatus[v]
               /\ UNCHANGED <<main_vars, writer_vars>>]_vars
    /\ <>(main_pc = "returned_ok")
    /\ [](main_pc = "returned_ok" => enqueued = RegularBefore(Len(tree) + 1))

C14_Witness ==
    /\ main_pc = "returned_ok"
    /\ writer_pc = "panicked"
    /\ cli.threads >= 2
    /\ Len(enqueued) >= 2
    /\ \E f \in RegularFiles : ScannerFinding("send", f, 0) \in errlog
    /\ \E w \in Workers : w_pc[w] \in {"return", "done"} /\ mystatus[w] = "cleared"

\* the error arm of the worker's send is never taken when no thread panics:
\* the writer drops rx_out only after every sender is dropped
C14_SendNeverFailsWithoutPanic ==
    \A w \in Workers : w_pc[w] = "send" => rx_out_alive

\* ------------------------------------------------------------ C18, C20
\* the indexes below n of the walk items that pass the filter of run
RECURSIVE WalkedBefore(_)
WalkedBefore(n) ==
    IF n <= 1 THEN <<>>
    ELSE IF is_walked(tree[n - 1]) THEN Append(WalkedBefore(n - 1), n - 1)
    ELSE WalkedBefore(n - 1)

\* what run has sent to consumer c so far: every walked item before the
\* current one, and the current one once its sender has been served
SentTo(c) ==
    IF fe_pc \in {"send", "returned_err"} /\ c < fe_next
    THEN Append(WalkedBefore(fe_pos), fe_pos)
    ELSE WalkedBefore(fe_pos)

\* C18: every entry FileEnumerator::run sends to a consumer is a regular
\* file; no directory or other non-regular entry is sent.
C18_SendsOnlyRegularFiles ==
    \A c \in Consumers : \A k \in 1..Len(fe_delivered[c]) :
        tree[fe_delivered[c][k]].kind = "file"

\* C18, the part that holds: an entry whose traversal fails is sent to
\* nobody, and the walk goes on to the entries after it.
C18_FailedEntriesSkipped ==
    /\ \A c \in Consumers : \A k \in 1..Len(fe_delivered[c]) :
           tree[fe_delivered[c][k]].kind # "err"
    /\ fe_pc = "returned_ok" => fe_pos = Len(tree) + 1

\* C20: FileEnumerator::run sends each walked entry to every registered
\* consumer exactly once and in walk order; without a failed send the senders
\* are dropped before the first join, every consumer is joined in order and
\* the consumer list is empty on Ok; on a failed send run returns the error
\* at once, having sent nothing further, joined nobody and kept its consumers.
C20_BroadcastThenOrderlyShutdown ==
    /\ \A c \in Consumers :
           fe_delivered[c] = IF c <= fe_registered /\ fe_pc # "start"
                             THEN SentTo(c) ELSE <<>>
    /\ fe_joined # <<>> => fe_senders = 0
    /\ fe_pc = "join" => fe_joined = [i \in 1..(fe_next - 1) |-> i]
    /\ fe_pc = "returned_ok" =>
           /\ fe_joined = [i \in 1..fe_registered |-> i]
           /\ fe_consumers = 0
           /\ fe_senders = 0
           /\ \A c \in 1..fe_registered :
                  fe_delivered[c] = WalkedBefore(Len(tree) + 1)
    /\ fe_pc = "returned_err" =>
           /\ fe_joined = <<>>
           /\ fe_consumers = fe_registered
           /\ ~fe_alive[fe_next]
    /\ fe_pc # "returned_ok" => fe_consumers = fe_registered

\* run returned Ok after sending two entries to each of two consumers
C20_Witness ==
    /\ fe_pc = "returned_ok"
    /\ fe_registered = 2
    /\ \A c \in Consumers : Len(fe_delivered[c]) = 2
    /\ Len(fe_joined) = 2

\* run returned the error of a send to the second consumer, the first one
\* having received the entry
C20_WitnessFailedSend ==
    /\ fe_pc = "returned_err"
    /\ fe_next = 2
    /\ Len(fe_delivered[1]) = 2
    /\ Len(fe_delivered[2]) = 1

====
